---------------------------- MODULE Spec2Model ----------------------------
(***************************************************************************)
(* Model of elf_reader.cpp: the reader cache (ElfReaderManager::OpenElf),  *)
(* the program-header scan (ReadMinVirtualAddress) and the .eh_frame       *)
(* decoder (ElfReaderImpl::ReadEhFrame).                                   *)
(*                                                                         *)
(* 64-bit quantities (uint64_t, pointers relative to the section start)    *)
(* are kept as tuples of 8 bytes, least significant first, so that the     *)
(* all-ones sentinels and the wrap of unsigned arithmetic are exact.       *)
(***************************************************************************)
EXTENDS Integers, Sequences, FiniteSets, TLC

VARIABLES
    \* ---- reader cache -------------------------------------------------
    reader_table,   \* ElfReaderManager::reader_table_: filename -> reader
    pc,             \* per caller: position inside OpenElf
    arg,            \* per caller: the filename argument
    tmp,            \* per caller: the value returned by ElfReader::Create
    creates,        \* per filename: number of ElfReader::Create invocations
    calls,          \* completed OpenElf calls, in order of return
    lhsFirst,       \* the build evaluates reader_table_[filename] before Create
    \* ---- program headers ----------------------------------------------
    program_headers, \* ElfReaderImpl::program_headers_
    min_vaddr,       \* value returned by ReadMinVirtualAddress
    phDone,          \* ReadMinVirtualAddress has run
    \* ---- .eh_frame decoder (one reader) --------------------------------
    log_flag,          \* log_flag_ & LOG_EH_FRAME_SECTION is nonzero
    has_eh_frame,      \* sec_headers_ holds a ".eh_frame" entry
    file_data,         \* the sh_size bytes of the section as they are in the file
    sh_addr,           \* eh_frame_sec->sh_addr
    read_section_flag, \* read_section_flag_ & READ_EH_FRAME_SECTION is nonzero
    cie_table_,        \* the reader's CIE table: section offset -> Cie
    fde_table_,        \* the reader's FDE table: function start -> Fde
    ehpc,              \* position inside ReadEhFrame
    eh_frame_data,     \* local: the vector returned by ReadSection
    p,                 \* local: the cursor, as p - begin
    cie_table,         \* local: the CIE table of the trace pass
    ehret,             \* the value returned by the last ReadEhFrame call
    ncalls,            \* number of ReadEhFrame calls made
    nreads,            \* number of ReadSection calls made
    readFailed,        \* the last ReadSection call failed
    iters,             \* loop iterations run by the current call
    seen,              \* CIEs and FDEs parsed by the current call
    last               \* what the last loop iteration did

cacheVars == <<reader_table, pc, arg, tmp, creates, calls, lhsFirst>>
phVars == <<program_headers, min_vaddr, phDone>>
ehVars == <<log_flag, has_eh_frame, file_data, sh_addr, read_section_flag,
            cie_table_, fde_table_, ehpc, eh_frame_data, p, cie_table, ehret,
            ncalls, nreads, readFailed, iters, seen, last>>
nonCacheVars == <<phVars, ehVars>>
vars == <<cacheVars, phVars, ehVars>>

-----------------------------------------------------------------------------
(* uint64_t arithmetic on little-endian byte tuples                        *)

\* the 64-bit value of a natural number below 2^31
U64(n) ==
    <<n % 256, (n \div 256) % 256, (n \div 65536) % 256, (n \div 16777216) % 256,
      0, 0, 0, 0>>

AllOnes64 == <<255, 255, 255, 255, 255, 255, 255, 255>>

AllOnes32 == <<255, 255, 255, 255, 0, 0, 0, 0>>

\* the single element of a singleton set: Val({F(x) : x \in {e}}) evaluates e
\* once and applies F to its value
Val(S) == CHOOSE v \in S : TRUE

Sum64(a, b) ==
    LET s1 == a[1] + b[1]
        s2 == a[2] + b[2] + (s1 \div 256)
        s3 == a[3] + b[3] + (s2 \div 256)
        s4 == a[4] + b[4] + (s3 \div 256)
        s5 == a[5] + b[5] + (s4 \div 256)
        s6 == a[6] + b[6] + (s5 \div 256)
        s7 == a[7] + b[7] + (s6 \div 256)
        s8 == a[8] + b[8] + (s7 \div 256)
    IN  <<s1 % 256, s2 % 256, s3 % 256, s4 % 256,
          s5 % 256, s6 % 256, s7 % 256, s8 % 256>>

\* a + b modulo 2^64
Add64(a, b) == Val({Sum64(x, y) : x \in {a}, y \in {b}})

Not64(a) ==
    <<255 - a[1], 255 - a[2], 255 - a[3], 255 - a[4],
      255 - a[5], 255 - a[6], 255 - a[7], 255 - a[8]>>

Neg64(a) == Val({Add64(Not64(x), U64(1)) : x \in {a}})

Sub64(a, b) == Add64(a, Neg64(b))

RECURSIVE LessFrom64(_, _, _)
LessFrom64(a, b, i) ==
    IF i = 0 THEN FALSE
    ELSE IF a[i] # b[i] THEN a[i] < b[i]
    ELSE LessFrom64(a, b, i - 1)

Less64(a, b) == Val({LessFrom64(x, y, 8) : x \in {a}, y \in {b}})

-----------------------------------------------------------------------------
(* Byte readers used by the decoder (read_utils.h)                          *)
(* A window w is the memory from the record's first byte onwards; a read   *)
(* past the window yields 0 here and is reported as a fault by the caller. *)

\* the value is below 2^31
IsSmall64(x) ==
    \E v \in {x} : v[5] = 0 /\ v[6] = 0 /\ v[7] = 0 /\ v[8] = 0 /\ v[4] < 128

ToNat(x) == Val({v[1] + 256 * v[2] + 65536 * v[3] + 16777216 * v[4] : v \in {x}})

\* the value is negative when read as ptrdiff_t / int64_t
IsNeg64(x) == x[8] >= 128

RdByte(w, c) == IF c < Len(w) THEN w[c + 1] ELSE 0

\* Read(p, n): n bytes, least significant first
Read(w, c, n) ==
    <<RdByte(w, c),
      IF n >= 2 THEN RdByte(w, c + 1) ELSE 0,
      IF n >= 4 THEN RdByte(w, c + 2) ELSE 0,
      IF n >= 4 THEN RdByte(w, c + 3) ELSE 0,
      IF n >= 8 THEN RdByte(w, c + 4) ELSE 0,
      IF n >= 8 THEN RdByte(w, c + 5) ELSE 0,
      IF n >= 8 THEN RdByte(w, c + 6) ELSE 0,
      IF n >= 8 THEN RdByte(w, c + 7) ELSE 0>>

\* the n-byte value x as a signed value
SignExtend(x, n) ==
    LET f == IF x[n] >= 128 THEN 255 ELSE 0
    IN  <<x[1], x[2],
          IF n >= 4 THEN x[3] ELSE f, IF n >= 4 THEN x[4] ELSE f,
          IF n >= 8 THEN x[5] ELSE f, IF n >= 8 THEN x[6] ELSE f,
          IF n >= 8 THEN x[7] ELSE f, IF n >= 8 THEN x[8] ELSE f>>

RECURSIVE StrEnd(_, _)
StrEnd(w, c) == IF RdByte(w, c) = 0 THEN c ELSE StrEnd(w, c + 1)

\* ReadStr(p): the bytes up to the terminating zero; the cursor passes the zero
ReadStr(w, c) ==
    [str |-> [i \in 1..(StrEnd(w, c) - c) |-> RdByte(w, c + i - 1)],
     next |-> StrEnd(w, c) + 1]

RECURSIVE LebEnd(_, _)
LebEnd(w, c) == IF RdByte(w, c) < 128 THEN c + 1 ELSE LebEnd(w, c + 1)

RECURSIVE Shl64(_, _)
Shl64(x, n) == IF n = 0 THEN x ELSE Val({Shl64(y, n - 1) : y \in {Add64(x, x)}})

RECURSIVE LebSum(_, _, _)
LebSum(w, c, k) ==
    LET b == RdByte(w, c)
        part == Shl64(U64(b % 128), 7 * k)
    IN  IF b < 128 THEN part ELSE Add64(part, LebSum(w, c + 1, k + 1))

ReadULEB128(w, c) == [value |-> LebSum(w, c, 0), next |-> LebEnd(w, c)]

ReadLEB128(w, c) ==
    Val({[value |-> IF (RdByte(w, e - 1) \div 64) % 2 = 1 /\ 7 * (e - c) < 64
                    THEN Sub64(v, Shl64(U64(1), 7 * (e - c)))
                    ELSE v,
          next |-> e] : e \in {LebEnd(w, c)}, v \in {LebSum(w, c, 0)}})

\* ReadEhEncoding(p, encoding): the low nibble selects the representation
ReadEhEncoding(w, c, encoding) ==
    LET fmt == encoding % 16
    IN  CASE fmt = 0 -> [value |-> Read(w, c, 8), next |-> c + 8]
          [] fmt = 1 -> ReadULEB128(w, c)
          [] fmt = 2 -> [value |-> Read(w, c, 2), next |-> c + 2]
          [] fmt = 3 -> [value |-> Read(w, c, 4), next |-> c + 4]
          [] fmt = 4 -> [value |-> Read(w, c, 8), next |-> c + 8]
          [] fmt = 9 -> ReadLEB128(w, c)
          [] fmt = 10 -> [value |-> SignExtend(Read(w, c, 2), 2), next |-> c + 2]
          [] fmt = 11 -> [value |-> SignExtend(Read(w, c, 4), 4), next |-> c + 4]
          [] fmt = 12 -> [value |-> Read(w, c, 8), next |-> c + 8]
          [] OTHER -> [value |-> U64(0), next |-> c]

\* (encoding & 0x70) == DW_EH_PE_pcrel
IsPcrel(encoding) == (encoding \div 16) % 8 = 1

-----------------------------------------------------------------------------
(* One record of the section: the body of the scan loop, lines 369-459      *)

\* a Cie as its constructor leaves it
NewCie ==
    [section64 |-> FALSE, augmentation |-> << >>, address_size |-> 0,
     data_alignment_factor |-> U64(0), fde_pointer_encoding |-> 0,
     lsda_encoding |-> 0, insts |-> [off |-> U64(0), len |-> 0]]

NoFde ==
    [cie |-> U64(0), section64 |-> FALSE, func_start |-> U64(0),
     func_end |-> U64(0), insts |-> [off |-> U64(0), len |-> 0]]

\* lines 415-430: the augmentation characters after the leading 'z'
RECURSIVE AugLoop(_, _, _, _, _)
AugLoop(w, aug, i, c, cie) ==
    IF i > Len(aug) THEN [c |-> c, cie |-> cie, abort |-> FALSE]
    ELSE IF aug[i] = 82
         THEN AugLoop(w, aug, i + 1, c + 1,
                      [cie EXCEPT !.fde_pointer_encoding = RdByte(w, c)])
    ELSE IF aug[i] = 80
         THEN AugLoop(w, aug, i + 1, ReadEhEncoding(w, c + 1, RdByte(w, c)).next, cie)
    ELSE IF aug[i] = 76
         THEN AugLoop(w, aug, i + 1, c + 1,
                      [cie EXCEPT !.lsda_encoding = RdByte(w, c)])
    ELSE [c |-> c, cie |-> cie, abort |-> TRUE]

\* lines 398-431, once the version and the augmentation string are read:
\* dal is the data alignment factor as read, c6 the cursor after the return
\* address register
CieFields(w, section64, version, aug, dal, c6) ==
    LET cie0 == [NewCie EXCEPT !.section64 = section64,
                               !.augmentation = aug.str,
                               !.address_size = IF version >= 4
                                                THEN RdByte(w, aug.next) ELSE 8,
                               !.data_alignment_factor = dal.value]
    IN  IF Len(aug.str) > 0
        THEN AugLoop(w, aug.str, 2, LebEnd(w, c6), cie0)
        ELSE [c |-> c6, cie |-> cie0, abort |-> FALSE]

\* lines 392-431: the CIE body, from the cursor c just after the ID field
ParseCie(w, c, section64) ==
    Val({
      IF ~(Len(aug.str) = 0 \/ aug.str[1] = 122)
      THEN [abort |-> TRUE, used |-> aug.next, cie |-> NewCie]
      ELSE Val({
             Val({[abort |-> loop.abort, used |-> loop.c, cie |-> loop.cie] :
                  loop \in {CieFields(w, section64, version, aug, dal,
                                      IF version = 1 THEN dal.next + 1
                                      ELSE LebEnd(w, dal.next))}}) :
             dal \in {ReadLEB128(w, LebEnd(w, IF version >= 4 THEN aug.next + 2
                                                ELSE aug.next))}}) :
      version \in {RdByte(w, c)}, aug \in {ReadStr(w, c + 1)}})

\* lines 443-446: the function start, made absolute for a pc-relative encoding
ProcStart(encoding, initial_location, shaddr, base, c) ==
    IF IsPcrel(encoding)
    THEN Add64(initial_location, Add64(shaddr, Add64(base, U64(c))))
    ELSE initial_location

\* lines 452-457: the cursor after the augmentation length and the LSDA pointer
FdeTail(w, cie, c) ==
    Val({IF cie.lsda_encoding # 0
         THEN ReadEhEncoding(w, c2, cie.lsda_encoding).next
         ELSE c2 :
         c2 \in {IF Len(cie.augmentation) > 0 /\ cie.augmentation[1] = 122
                 THEN LebEnd(w, c) ELSE c}})

\* lines 440-457: the FDE body, from the cursor c just after the ID field
ParseFde(w, c, base, cie, cie_offset, section64, shaddr) ==
    Val({
      Val({
        Val({[used |-> FdeTail(w, cie, address_range.next),
              fde |-> [NoFde EXCEPT !.cie = cie_offset, !.section64 = section64,
                                    !.func_start = proc_start,
                                    !.func_end = Add64(proc_start,
                                                       address_range.value)]] :
             proc_start \in {ProcStart(cie.fde_pointer_encoding,
                                       initial_location.value, shaddr, base, c)}}) :
        address_range \in {ReadEhEncoding(w, initial_location.next,
                                          cie.fde_pointer_encoding)}}) :
      initial_location \in {ReadEhEncoding(w, c, cie.fde_pointer_encoding)}})

\* the offset computed from the ID field of an FDE, taken from the position
\* just after the field
CieOffset_AfterId(base, c, secbytes, cie_id) == Sub64(Add64(base, U64(c)), cie_id)

\* line 435: p - secbytes - begin - cie_id, with p just after the ID field
CieOffset(base, c, secbytes, cie_id) ==
    Sub64(Add64(base, U64(c - secbytes)), cie_id)

\* cie_table.FindCie(cie_offset) != nullptr
FindCie(table, cie_offset) == cie_offset \in DOMAIN table

\* table.CreateCie(offset) / table.CreateFde(start): the entry under the key
Put(table, key, value) ==
    [k \in DOMAIN table \cup {key} |-> IF k = key THEN value ELSE table[k]]

\* lines 369-389: the length and ID fields of the record at base
HeaderOf(w, base) ==
    Val({
      LET section64 == len = AllOnes32
          secbytes == IF section64 THEN 8 ELSE 4
          lenEnd == IF section64 THEN 12 ELSE 4
          unit_len == IF section64 THEN Read(w, 4, 8) ELSE len
          raw_id == Read(w, lenEnd, secbytes)
      IN  [section64 |-> section64, secbytes |-> secbytes, lenEnd |-> lenEnd,
           unit_len |-> unit_len,
           cie_end |-> Add64(Add64(base, U64(lenEnd)), unit_len),
           cie_id |-> IF ~section64 /\ raw_id = AllOnes32 THEN AllOnes64
                      ELSE raw_id] :
      len \in {Read(w, 0, 4)}})

\* the result of an iteration that stops at the zero length (line 382)
ZeroRecord(base, h) ==
    [kind |-> "zero", section64 |-> h.section64, lenEnd |-> h.lenEnd,
     unit_len |-> h.unit_len, cie_end |-> Add64(base, U64(h.lenEnd)),
     cie_id |-> U64(0), cie_offset |-> U64(0), used |-> h.lenEnd,
     cie |-> NewCie, fde |-> NoFde]

\* lines 390-459, for the header h of the record at base
RecordOf(w, base, table, shaddr, h) ==
    IF h.unit_len = U64(0) THEN ZeroRecord(base, h)
    ELSE IF h.cie_id = U64(0)
    THEN Val({[ZeroRecord(base, h) EXCEPT
                  !.kind = IF b.abort THEN "abort" ELSE "cie",
                  !.cie_end = h.cie_end, !.used = b.used, !.cie = b.cie] :
              b \in {ParseCie(w, h.lenEnd + h.secbytes, h.section64)}})
    ELSE Val({
           IF ~FindCie(table, cie_offset)
           THEN [ZeroRecord(base, h) EXCEPT
                    !.kind = "unresolved", !.cie_end = h.cie_end,
                    !.cie_id = h.cie_id, !.cie_offset = cie_offset,
                    !.used = h.lenEnd + h.secbytes]
           ELSE Val({[ZeroRecord(base, h) EXCEPT
                         !.kind = "fde", !.cie_end = h.cie_end,
                         !.cie_id = h.cie_id, !.cie_offset = cie_offset,
                         !.used = b.used, !.fde = b.fde] :
                     b \in {ParseFde(w, h.lenEnd + h.secbytes, base,
                                     table[cie_offset], cie_offset, h.section64,
                                     shaddr)}}) :
           cie_offset \in {CieOffset(base, h.lenEnd + h.secbytes, h.secbytes,
                                     h.cie_id)}})

\* One iteration's parse of the record that starts at base, against the CIE
\* table of the pass.  kind is "zero", "cie", "fde", "unresolved" or "abort";
\* used is the cursor (relative to base) where the parse stopped.
ParseRecord(w, base, table, shaddr) ==
    Val({RecordOf(w, base, table, shaddr, h) : h \in {HeaderOf(w, base)}})

-----------------------------------------------------------------------------
(* Section contents the decoder is run on                                   *)

MaxRecords == 2

Le(x, n) == SubSeq(x, 1, n)

\* version 1, augmentation "", code alignment 1, data alignment -4,
\* return register 16, then three instruction bytes
CieBody == <<1, 0, 1, 124, 16, 12, 7, 8>>

\* version 1, augmentation "zR", ..., augmentation length 1,
\* FDE pointer encoding DW_EH_PE_pcrel | DW_EH_PE_sdata4, three instruction bytes
CieZRBody == <<1, 122, 82, 0, 1, 120, 16, 1, 27, 12, 7, 8>>

\* version 1, augmentation "eh"
CieEhBody == <<1, 101, 104, 0, 1, 124, 16, 12>>

\* initial location 0x1000, address range 0x20 (as 8-byte values), one more byte
FdeBody == <<0, 16, 0, 0, 0, 0, 0, 0, 32, 0, 0, 0, 0, 0, 0, 0, 0>>

RecordKinds ==
    {"zero", "zero64", "cie", "cieZR", "cieEh", "cieLong", "cieShort", "cieWrap",
     "fde", "fdeAfter", "fdeOnes", "fde64", "fde64Fwd"}

\* the bytes of a record of the given kind placed at section offset pos
RecordBytes(kind, pos) ==
    CASE kind = "zero" -> <<0, 0, 0, 0>>
      [] kind = "zero64" -> Le(AllOnes32, 4) \o Le(U64(0), 8)
      [] kind = "cie" -> Le(U64(4 + Len(CieBody)), 4) \o Le(U64(0), 4) \o CieBody
      [] kind = "cieZR" -> Le(U64(4 + Len(CieZRBody)), 4) \o Le(U64(0), 4) \o CieZRBody
      [] kind = "cieEh" -> Le(U64(4 + Len(CieEhBody)), 4) \o Le(U64(0), 4) \o CieEhBody
         \* the length field says 6 bytes more than the record has
      [] kind = "cieLong" -> Le(U64(4 + Len(CieBody) + 6), 4) \o Le(U64(0), 4) \o CieBody
         \* the length field ends the record inside the fixed CIE fields
      [] kind = "cieShort" -> Le(U64(4 + 2), 4) \o Le(U64(0), 4) \o CieBody
         \* extended form whose 8-byte length is 2^64 - 12
      [] kind = "cieWrap" -> Le(AllOnes32, 4) \o Le(Neg64(U64(12)), 8) \o Le(U64(0), 8)
                             \o CieBody
         \* ID = offset of the ID field: refers to the CIE at offset 0
      [] kind = "fde" -> Le(U64(4 + Len(FdeBody)), 4) \o Le(U64(pos + 4), 4) \o FdeBody
         \* ID = offset just after the ID field
      [] kind = "fdeAfter" -> Le(U64(4 + Len(FdeBody)), 4) \o Le(U64(pos + 8), 4) \o FdeBody
         \* ID = 0xffffffff
      [] kind = "fdeOnes" -> Le(U64(4 + Len(FdeBody)), 4) \o Le(AllOnes32, 4) \o FdeBody
         \* extended form, refers to the CIE at offset 0
      [] kind = "fde64" -> Le(AllOnes32, 4) \o Le(U64(8 + Len(FdeBody)), 8)
                           \o Le(U64(pos + 12), 8) \o FdeBody
         \* extended form, refers to the record that follows this one
      [] kind = "fde64Fwd" -> Le(AllOnes32, 4) \o Le(U64(8 + Len(FdeBody)), 8)
                              \o Le(Neg64(U64(8 + Len(FdeBody))), 8) \o FdeBody

RECURSIVE Sections(_)
Sections(k) ==
    IF k = 0 THEN {<< >>}
    ELSE LET prev == Sections(k - 1)
         IN  prev \cup {s \o RecordBytes(kind, Len(s)) : s \in prev, kind \in RecordKinds}

ShAddrs == {U64(8192)}

-----------------------------------------------------------------------------
(* ElfReaderImpl::ReadEhFrame                                               *)

MaxReadCalls == 2

MaxIters == 4

\* number of readable bytes that may follow the vector's storage
TailLen == 8

\* value of the readable bytes outside the vector's storage
Garbage == {0, 255}

NoLast ==
    [pass |-> "none", kind |-> "none", off |-> U64(0), section64 |-> FALSE,
     lenEnd |-> 0, unit_len |-> U64(0), cie_end |-> U64(0), cie_id |-> U64(0),
     cie_offset |-> U64(0), used |-> 0, next |-> U64(0), outcome |-> "none", table |-> {}]

EmptyTable == [k \in {} |-> NewCie]

\* the loop condition p < end, on addresses: an offset that is negative as a
\* ptrdiff_t is an address below begin
InLoop(cur, data) == Less64(cur, U64(Len(data))) \/ IsNeg64(cur)

\* the memory from offset base on: the rest of the vector, then tail readable
\* bytes of value g; anything further is not readable
Window(data, base, g, tail) ==
    IF Less64(base, U64(Len(data)))
    THEN SubSeq(data, ToNat(base) + 1, Len(data)) \o [i \in 1..tail |-> g]
    ELSE [i \in 1..tail |-> g]

\* insts.insert(insts.begin(), p, cie_end) with p = base + used: "ok", "empty"
\* (a negative distance that the library ignores), "throw" (a negative
\* distance that the library rejects) or "segv" (the copy leaves readable memory)
CopyInsts(w, base, used, cie_end, stl) ==
    Val({IF IsNeg64(n) THEN (IF stl = "throw" THEN "throw" ELSE "empty")
         ELSE IF IsSmall64(n) /\ used + ToNat(n) <= Len(w) THEN "ok"
         ELSE "segv" :
         n \in {Sub64(cie_end, Add64(base, U64(used)))}})

InstsOf(base, used, cie_end, copy) ==
    [off |-> Add64(base, U64(used)),
     len |-> IF copy = "ok" THEN ToNat(Sub64(cie_end, Add64(base, U64(used)))) ELSE 0]

\* an FDE whose CIE is not found is skipped and the scan goes on
StepOutcome_SkipUnresolved(kind, fault, copy) ==
    IF fault THEN "segv"
    ELSE CASE kind = "zero" -> "continue"
           [] kind = "abort" -> "abort"
           [] kind = "unresolved" -> "continue"
           [] OTHER -> IF copy \in {"ok", "empty"} THEN "continue" ELSE copy

\* how an iteration ends: "continue" (p = cie_end, or the continue of line 382),
\* "false" (line 438), "abort" (lines 397, 428), "throw"/"segv" (the process dies)
StepOutcome(kind, fault, copy) ==
    IF fault THEN "segv"
    ELSE CASE kind = "zero" -> "continue"
           [] kind = "abort" -> "abort"
           [] kind = "unresolved" -> "false"
           [] OTHER -> IF copy \in {"ok", "empty"} THEN "continue" ELSE copy

LastOf(pass, base, r, outcome, table) ==
    [pass |-> pass, kind |-> r.kind, off |-> base, section64 |-> r.section64,
     lenEnd |-> r.lenEnd, unit_len |-> r.unit_len, cie_end |-> r.cie_end,
     cie_id |-> r.cie_id, cie_offset |-> r.cie_offset, used |-> r.used,
     next |-> IF outcome = "continue" THEN r.cie_end ELSE base,
     outcome |-> outcome, table |-> DOMAIN table]

SeenOf(base, r, outcome) ==
    IF outcome # "continue" THEN {}
    ELSE IF r.kind = "cie" THEN {[kind |-> "cie", key |-> base]}
    ELSE IF r.kind = "fde" THEN {[kind |-> "fde", key |-> r.fde.func_start]}
    ELSE {}

PcAfter(pass, outcome) ==
    CASE outcome = "continue" -> pass
      [] outcome = "false" -> "idle"
      [] OTHER -> "dead"

\* lines 242-244: the section was decoded before
ReadEhFrameCached ==
    /\ ehpc = "idle" /\ ncalls < MaxReadCalls
    /\ read_section_flag
    /\ ehret' = "true"
    /\ ncalls' = ncalls + 1
    /\ UNCHANGED <<log_flag, has_eh_frame, file_data, sh_addr, read_section_flag,
                   cie_table_, fde_table_, ehpc, eh_frame_data, p, cie_table,
                   nreads, readFailed, iters, seen, last, cacheVars, phVars>>

\* lines 245-248: no .eh_frame section
ReadEhFrameNoSection ==
    /\ ehpc = "idle" /\ ncalls < MaxReadCalls
    /\ ~read_section_flag /\ ~has_eh_frame
    /\ ehret' = "false"
    /\ ncalls' = ncalls + 1
    /\ UNCHANGED <<log_flag, has_eh_frame, file_data, sh_addr, read_section_flag,
                   cie_table_, fde_table_, ehpc, eh_frame_data, p, cie_table,
                   nreads, readFailed, iters, seen, last, cacheVars, phVars>>

\* lines 249-257 / 368: ReadSection (lines 222-228: an empty vector when the
\* positioned read fails or is short), then the first pass starts
ReadEhFrameStart ==
    /\ ehpc = "idle" /\ ncalls < MaxReadCalls
    /\ ~read_section_flag /\ has_eh_frame
    /\ \E ok \in BOOLEAN :
         /\ eh_frame_data' = IF ok THEN file_data ELSE << >>
         /\ readFailed' = ~ok
    /\ nreads' = nreads + 1
    /\ ncalls' = ncalls + 1
    /\ ehret' = "none"
    /\ p' = U64(0)
    /\ cie_table' = EmptyTable
    /\ iters' = 0
    /\ seen' = {}
    /\ last' = NoLast
    /\ ehpc' = IF log_flag THEN "trace" ELSE "decode"
    /\ UNCHANGED <<log_flag, has_eh_frame, file_data, sh_addr, read_section_flag,
                   cie_table_, fde_table_, cacheVars, phVars>>

\* lines 257-365: one iteration of the trace pass
TraceStep ==
    /\ ehpc = "trace" /\ InLoop(p, eh_frame_data) /\ iters < MaxIters
    /\ \E g \in Garbage, tail \in {0, TailLen} :
      \E w \in {Window(eh_frame_data, p, g, tail)} :
      \E r \in {ParseRecord(w, p, cie_table, sh_addr)} :
         LET outcome == StepOutcome(r.kind, r.used > Len(w), "ok")
         IN  /\ last' = LastOf("trace", p, r, outcome, cie_table)
             /\ seen' = seen \cup SeenOf(p, r, outcome)
             /\ cie_table' = IF r.kind = "cie" /\ outcome = "continue"
                             THEN Put(cie_table, p, [r.cie EXCEPT !.section64 = FALSE])
                             ELSE cie_table
             /\ p' = IF outcome = "continue" THEN r.cie_end ELSE p
             /\ ehpc' = PcAfter("trace", outcome)
             /\ ehret' = IF outcome = "false" THEN "false" ELSE ehret
    /\ iters' = iters + 1
    /\ UNCHANGED <<log_flag, has_eh_frame, file_data, sh_addr, read_section_flag,
                   cie_table_, fde_table_, eh_frame_data, ncalls, nreads,
                   readFailed, cacheVars, phVars>>

\* line 257 exit, line 368: the trace pass is over, the decode pass starts
TraceDone ==
    /\ ehpc = "trace" /\ ~InLoop(p, eh_frame_data)
    /\ ehpc' = "decode"
    /\ p' = U64(0)
    /\ UNCHANGED <<log_flag, has_eh_frame, file_data, sh_addr, read_section_flag,
                   cie_table_, fde_table_, eh_frame_data, cie_table, ehret, ncalls,
                   nreads, readFailed, iters, seen, last, cacheVars, phVars>>

\* lines 368-461: one iteration of the decode pass
DecodeStep ==
    /\ ehpc = "decode" /\ InLoop(p, eh_frame_data) /\ iters < MaxIters
    /\ \E g \in Garbage, tail \in {0, TailLen}, stl \in {"throw", "noop"} :
      \E w \in {Window(eh_frame_data, p, g, tail)} :
      \E r \in {ParseRecord(w, p, cie_table_, sh_addr)} :
      \E copy \in {CopyInsts(w, p, r.used, r.cie_end, stl)} :
         LET insts == InstsOf(p, r.used, r.cie_end, copy)
             outcome == StepOutcome(r.kind, r.used > Len(w), copy)
         IN  /\ last' = LastOf("decode", p, r, outcome, cie_table_)
             /\ seen' = seen \cup SeenOf(p, r, outcome)
             /\ cie_table_' = IF r.kind = "cie" /\ outcome = "continue"
                              THEN Put(cie_table_, p, [r.cie EXCEPT !.insts = insts])
                              ELSE cie_table_
             /\ fde_table_' = IF r.kind = "fde" /\ outcome = "continue"
                              THEN Put(fde_table_, r.fde.func_start,
                                       [r.fde EXCEPT !.insts = insts])
                              ELSE fde_table_
             /\ p' = IF outcome = "continue" THEN r.cie_end ELSE p
             /\ ehpc' = PcAfter("decode", outcome)
             /\ ehret' = IF outcome = "false" THEN "false" ELSE ehret
    /\ iters' = iters + 1
    /\ UNCHANGED <<log_flag, has_eh_frame, file_data, sh_addr, read_section_flag,
                   eh_frame_data, cie_table, ncalls, nreads, readFailed,
                   cacheVars, phVars>>

\* the scan ends with success but the section is not marked as decoded
DecodeDone_NoFlag ==
    /\ ehpc = "decode" /\ ~InLoop(p, eh_frame_data)
    /\ ehret' = "true"
    /\ ehpc' = "idle"
    /\ UNCHANGED <<log_flag, has_eh_frame, file_data, sh_addr, read_section_flag,
                   cie_table_, fde_table_, eh_frame_data, p, cie_table, ncalls,
                   nreads, readFailed, iters, seen, last, cacheVars, phVars>>

\* lines 462-463: the scan reached the end of the section
DecodeDone ==
    /\ ehpc = "decode" /\ ~InLoop(p, eh_frame_data)
    /\ read_section_flag' = TRUE
    /\ ehret' = "true"
    /\ ehpc' = "idle"
    /\ UNCHANGED <<log_flag, has_eh_frame, file_data, sh_addr, cie_table_,
                   fde_table_, eh_frame_data, p, cie_table, ncalls, nreads,
                   readFailed, iters, seen, last, cacheVars, phVars>>

InitEhIdle ==
    /\ log_flag = FALSE
    /\ has_eh_frame = FALSE
    /\ file_data = << >>
    /\ sh_addr = U64(0)
    /\ read_section_flag = FALSE
    /\ cie_table_ = EmptyTable
    /\ fde_table_ = EmptyTable
    /\ ehpc = "idle"
    /\ eh_frame_data = << >>
    /\ p = U64(0)
    /\ cie_table = EmptyTable
    /\ ehret = "none"
    /\ ncalls = 0
    /\ nreads = 0
    /\ readFailed = FALSE
    /\ iters = 0
    /\ seen = {}
    /\ last = NoLast

-----------------------------------------------------------------------------
(* Reader cache: ElfReaderManager::OpenElf                                  *)

Paths == {"a", "b"}

Callers == {"t1", "t2"}

MaxCalls == 4

NullReader == [kind |-> "null", path |-> "", inst |-> 0]

NewReader(filename, n) == [kind |-> "reader", path |-> filename, inst |-> n]

NoReader == [kind |-> "none", path |-> "", inst |-> 0]

\* a lookup that treats a stored null reader as a miss
Found_NullIsMiss(table, filename) ==
    filename \in DOMAIN table /\ table[filename].kind # "null"

\* reader_table_.find(filename) != reader_table_.end()
Found(table, filename) == filename \in DOMAIN table

\* reader_table_[filename] = value (operator[] inserts the key when absent)
Assign(table, filename, value) ==
    [f \in DOMAIN table \cup {filename} |-> IF f = filename THEN value ELSE table[f]]

InFlight == Cardinality({t \in Callers : pc[t] # "idle"})

\* a caller enters OpenElf(filename)
Call(t, filename) ==
    /\ pc[t] = "idle"
    /\ Len(calls) + InFlight < MaxCalls
    /\ pc' = [pc EXCEPT ![t] = "find"]
    /\ arg' = [arg EXCEPT ![t] = filename]
    /\ tmp' = [tmp EXCEPT ![t] = NoReader]
    /\ UNCHANGED <<reader_table, creates, calls, lhsFirst, nonCacheVars>>

\* lines 503-506: the lookup, and the early return on a hit
Find(t) ==
    /\ pc[t] = "find"
    /\ IF Found(reader_table, arg[t])
       THEN /\ calls' = Append(calls, [caller |-> t, path |-> arg[t],
                                       ret |-> reader_table[arg[t]],
                                       created |-> FALSE,
                                       early |-> \E u \in Callers \ {t} :
                                                   /\ pc[u] \in {"create", "store"}
                                                   /\ arg[u] = arg[t]])
            /\ pc' = [pc EXCEPT ![t] = "idle"]
       ELSE /\ pc' = [pc EXCEPT ![t] = IF lhsFirst THEN "slot" ELSE "create"]
            /\ UNCHANGED calls
    /\ UNCHANGED <<reader_table, arg, tmp, creates, lhsFirst, nonCacheVars>>

\* line 507, left operand first: operator[] default-inserts a null reader
Slot(t) ==
    /\ pc[t] = "slot"
    /\ reader_table' = IF Found(reader_table, arg[t]) THEN reader_table
                       ELSE Assign(reader_table, arg[t], NullReader)
    /\ pc' = [pc EXCEPT ![t] = "create"]
    /\ UNCHANGED <<arg, tmp, creates, calls, lhsFirst, nonCacheVars>>

\* line 507, right operand: ElfReader::Create(filename, -1), lines 466-497
Create(t) ==
    /\ pc[t] = "create"
    /\ creates' = [creates EXCEPT ![arg[t]] = @ + 1]
    /\ \E ok \in BOOLEAN :
         tmp' = [tmp EXCEPT ![t] = IF ok THEN NewReader(arg[t], creates[arg[t]] + 1)
                                   ELSE NullReader]
    /\ pc' = [pc EXCEPT ![t] = "store"]
    /\ UNCHANGED <<reader_table, arg, calls, lhsFirst, nonCacheVars>>

\* line 507, the assignment into the table
Store(t) ==
    /\ pc[t] = "store"
    /\ reader_table' = Assign(reader_table, arg[t], tmp[t])
    /\ pc' = [pc EXCEPT ![t] = "ret"]
    /\ UNCHANGED <<arg, tmp, creates, calls, lhsFirst, nonCacheVars>>

\* line 508: return reader_table_[filename].get()
Return(t) ==
    /\ pc[t] = "ret"
    /\ calls' = Append(calls, [caller |-> t, path |-> arg[t],
                               ret |-> reader_table[arg[t]], created |-> TRUE,
                               early |-> FALSE])
    /\ pc' = [pc EXCEPT ![t] = "idle"]
    /\ UNCHANGED <<reader_table, arg, tmp, creates, lhsFirst, nonCacheVars>>

InitCache ==
    /\ reader_table = [f \in {} |-> NullReader]
    /\ pc = [t \in Callers |-> "idle"]
    /\ arg = [t \in Callers |-> "a"]
    /\ tmp = [t \in Callers |-> NoReader]
    /\ creates = [f \in Paths |-> 0]
    /\ calls = << >>
    /\ lhsFirst \in BOOLEAN

-----------------------------------------------------------------------------
(* Program headers: ReadProgramHeaders and ReadMinVirtualAddress            *)

PT_LOAD == 1

PF_X == 1

MaxPh == 2

PhTypes == {PT_LOAD, 2}

PhFlags == {PF_X, 4, 5}

PhVaddrs == {U64(0), U64(4096), <<0, 0, 0, 0, 1, 0, 0, 0>>, AllOnes64}

\* flags & bit, for a single-bit mask
BitSet(flags, bit) == (flags \div bit) % 2 = 1

RECURSIVE MinVaddrFrom(_, _, _)
MinVaddrFrom(phs, i, acc) ==
    IF i > Len(phs) THEN acc
    ELSE IF phs[i].p_type = PT_LOAD /\ BitSet(phs[i].p_flags, PF_X)
              /\ Less64(phs[i].p_vaddr, acc)
         THEN MinVaddrFrom(phs, i + 1, phs[i].p_vaddr)
         ELSE MinVaddrFrom(phs, i + 1, acc)

\* the scan without the executable-flag test
ReadMinVirtualAddress_AnyLoad(phs) ==
    LET loads == SelectSeq(phs, LAMBDA ph : ph.p_type = PT_LOAD)
    IN  MinVaddrFrom([i \in 1..Len(loads) |-> [loads[i] EXCEPT !.p_flags = PF_X]],
                     1, AllOnes64)

ReadMinVirtualAddress(phs) == MinVaddrFrom(phs, 1, AllOnes64)

\* lines 167-173: one iteration of the loop that appends a program header
ReadProgramHeader ==
    /\ ~phDone
    /\ Len(program_headers) < MaxPh
    /\ \E ty \in PhTypes, fl \in PhFlags, va \in PhVaddrs :
         program_headers' = Append(program_headers,
                                   [p_type |-> ty, p_flags |-> fl, p_vaddr |-> va])
    /\ UNCHANGED <<min_vaddr, phDone, cacheVars, ehVars>>

\* line 495: ReadMinVaddr, which calls ReadMinVirtualAddress
ReadMinVaddr ==
    /\ ~phDone
    /\ min_vaddr' = ReadMinVirtualAddress(program_headers)
    /\ phDone' = TRUE
    /\ UNCHANGED <<program_headers, cacheVars, ehVars>>

InitPhIdle ==
    /\ program_headers = << >>
    /\ min_vaddr = AllOnes64
    /\ phDone = FALSE

InitPh == InitPhIdle /\ InitCache /\ lhsFirst = FALSE /\ InitEhIdle

NextPh == ReadProgramHeader \/ ReadMinVaddr

SpecPh == InitPh /\ [][NextPh]_vars

-----------------------------------------------------------------------------
(* Specifications of the reader cache                                       *)

\* one caller: any sequence of OpenElf calls
InitSeq == InitCache /\ InitPhIdle /\ InitEhIdle

NextSeq ==
    \/ \E filename \in Paths : Call("t1", filename)
    \/ Find("t1")
    \/ Slot("t1")
    \/ Create("t1")
    \/ Store("t1")
    \/ Return("t1")

SpecSeq == InitSeq /\ [][NextSeq]_vars

\* several callers, interleaved at the statements of OpenElf (no lock is taken)
InitConc == InitCache /\ InitPhIdle /\ InitEhIdle

NextConc ==
    \/ \E t \in Callers, filename \in Paths : Call(t, filename)
    \/ \E t \in Callers : Find(t)
    \/ \E t \in Callers : Slot(t)
    \/ \E t \in Callers : Create(t)
    \/ \E t \in Callers : Store(t)
    \/ \E t \in Callers : Return(t)

SpecConc == InitConc /\ [][NextConc]_vars

-----------------------------------------------------------------------------
(* Specification of the decoder: one reader, any of the sample sections     *)

InitEh ==
    /\ InitCache /\ lhsFirst = FALSE
    /\ InitPhIdle
    /\ log_flag \in BOOLEAN
    /\ has_eh_frame \in BOOLEAN
    /\ file_data \in (IF has_eh_frame THEN Sections(MaxRecords) ELSE {<< >>})
    /\ sh_addr \in ShAddrs
    /\ read_section_flag = FALSE
    /\ cie_table_ = EmptyTable
    /\ fde_table_ = EmptyTable
    /\ ehpc = "idle"
    /\ eh_frame_data = << >>
    /\ p = U64(0)
    /\ cie_table = EmptyTable
    /\ ehret = "none"
    /\ ncalls = 0
    /\ nreads = 0
    /\ readFailed = FALSE
    /\ iters = 0
    /\ seen = {}
    /\ last = NoLast

NextEh ==
    \/ ReadEhFrameCached
    \/ ReadEhFrameNoSection
    \/ ReadEhFrameStart
    \/ TraceStep
    \/ TraceDone
    \/ DecodeStep
    \/ DecodeDone

SpecEh == InitEh /\ [][NextEh]_vars

-----------------------------------------------------------------------------
(* Claims about the reader cache                                            *)

SameFile(i, j) == calls[i].path = calls[j].path

\* C1: in any sequence of OpenElf calls at most one ElfReader::Create is made
\* per distinct path; the first call stores its outcome (a failed open as a
\* null reader) and every later call for the path returns that stored outcome
\* without calling Create again.
C1_OneCreatePerPath ==
    /\ \A f \in Paths : creates[f] <= 1
    /\ \A i \in 1..Len(calls) :
         calls[i].created =>
            /\ calls[i].path \in DOMAIN reader_table
            /\ reader_table[calls[i].path] = calls[i].ret
    /\ \A i, j \in 1..Len(calls) :
         (i < j /\ SameFile(i, j)) =>
            /\ ~calls[j].created
            /\ calls[j].ret = calls[i].ret

\* a failed open was stored and a later call for the same path returned it
C1_Witness ==
    \E i, j \in 1..Len(calls) :
       /\ i < j /\ SameFile(i, j)
       /\ calls[i].created /\ calls[i].ret = NullReader
       /\ calls[j].ret = NullReader
       /\ creates[calls[i].path] = 1

\* C2: concurrent first calls of OpenElf for one path are serialized: exactly
\* one open attempt is made for the path, and no caller is handed the table's
\* entry for a path while another caller is still constructing its reader.
C2_SerializedFirstAccess ==
    /\ \A f \in Paths : creates[f] <= 1
    /\ \A i \in 1..Len(calls) : ~calls[i].early

-----------------------------------------------------------------------------
(* Claims about the program-header scan                                     *)

\* indices of the headers that are LOAD segments with the executable flag
ExecLoads ==
    {i \in 1..Len(program_headers) :
        /\ program_headers[i].p_type = 1
        /\ program_headers[i].p_flags \in {1, 3, 5, 7}}

\* C7: ReadMinVirtualAddress returns the smallest p_vaddr among the headers
\* whose type is LOAD and whose executable flag is set, and the all-ones
\* 64-bit value when no header satisfies both conditions.
C7_MinExecLoadVaddr ==
    phDone =>
       IF ExecLoads = {}
       THEN min_vaddr = AllOnes64
       ELSE /\ \E i \in ExecLoads : min_vaddr = program_headers[i].p_vaddr
            /\ \A i \in ExecLoads : ~Less64(program_headers[i].p_vaddr, min_vaddr)

\* the scan has run over two executable LOAD segments, the smaller one last,
\* or over a non-executable LOAD segment below the executable one
C7_Witness ==
    /\ phDone
    /\ Len(program_headers) = 2
    /\ program_headers[1].p_type = 1 /\ program_headers[2].p_type = 1
    /\ program_headers[1].p_flags = 4 /\ program_headers[2].p_flags = 5
    /\ Less64(program_headers[1].p_vaddr, program_headers[2].p_vaddr)
    /\ min_vaddr = program_headers[2].p_vaddr
    /\ min_vaddr # AllOnes64

-----------------------------------------------------------------------------
(* Claims about ReadEhFrame                                                 *)

\* a step that enters ReadEhFrame
IsCall == ncalls' = ncalls + 1

\* C3: ReadEhFrame is idempotent per reader: after a call that returned true
\* every later call returns true at once, without reading the section again,
\* and leaves the CIE table and the FDE table as they were; a call that
\* returned false does not set the decoded flag, and the call after it is not
\* answered from the flag.
C3_Idempotent ==
    [][/\ (IsCall /\ ehret = "true") =>
             /\ ehret' = "true" /\ ehpc' = "idle"
             /\ nreads' = nreads
             /\ cie_table_' = cie_table_ /\ fde_table_' = fde_table_
       /\ (ehret' = "false") => ~read_section_flag'
       /\ (IsCall /\ ehret = "false" /\ has_eh_frame) =>
             /\ nreads' = nreads + 1
             /\ ehpc' \in {"trace", "decode"}]_vars

\* a second call was answered from the flag after a scan that filled the tables
C3_Witness ==
    /\ ncalls = 2 /\ nreads = 1
    /\ ehpc = "idle" /\ ehret = "true"
    /\ DOMAIN cie_table_ # {} /\ DOMAIN fde_table_ # {}

\* C4: every FDE of the FDE table refers to a CIE of the CIE table, which was
\* in the table when the FDE was built; an FDE record whose CIE offset is not
\* a key of the CIE table (a CIE placed later in the section included) makes
\* ReadEhFrame return false at that record: no FDE is created and the process
\* goes on.  The record is one whose ID field was read, so that a CIE offset
\* was computed.
C4_FdeCieResolved ==
    /\ \A k \in DOMAIN fde_table_ : fde_table_[k].cie \in DOMAIN cie_table_
    /\ (last.kind = "fde" /\ last.outcome = "continue") =>
          last.cie_offset \in last.table
    /\ (/\ last.kind \in {"fde", "unresolved"}
        /\ last.outcome # "segv"
        /\ last.cie_offset \notin last.table) =>
          /\ last.kind = "unresolved"
          /\ last.outcome = "false"
          /\ ehret = "false" /\ ehpc = "idle"
          /\ ~read_section_flag
          /\ \A k \in DOMAIN fde_table_ : fde_table_[k].cie # last.cie_offset

\* the decode pass stored a CIE and then met an FDE that refers to the record
\* after itself
C4_Witness ==
    /\ last.pass = "decode" /\ last.kind = "unresolved"
    /\ last.section64 /\ last.cie_offset = last.cie_end
    /\ DOMAIN cie_table_ # {}
    /\ ehret = "false" /\ ehpc = "idle"

\* the records decoded before the failing one are in the reader's tables
Retained ==
    \A s \in seen :
       IF s.kind = "cie" THEN s.key \in DOMAIN cie_table_
       ELSE s.key \in DOMAIN fde_table_

\* C5: when ReadEhFrame fails at an FDE with an unresolved CIE reference, every
\* CIE and FDE decoded from the records before it is in the reader's CIE table
\* and FDE table after the call, whatever the log flag is.
C5_PartialStateRetained ==
    (ehpc = "idle" /\ ehret = "false" /\ last.kind = "unresolved") => Retained

\* C6: when the read of the section's bytes fails or is short, ReadEhFrame
\* returns false and does not mark the section as decoded.
C6_ReadFailureIsFailure ==
    (readFailed /\ Len(file_data) > 0 /\ ehpc = "idle") =>
       (ehret = "false" /\ ~read_section_flag)

\* C8 as amended: a record whose ID is 0 is a CIE; any other record is an FDE
\* whose CIE offset is the section offset of the START of the ID field minus
\* the ID, modulo 2^64, for both ID widths, a 4-byte ID of 0xffffffff counting
\* as 2^64 - 1.
C8_CieOffsetFromIdStart ==
    /\ last.kind \in {"cie", "abort"} => last.cie_id = U64(0)
    /\ last.kind \in {"fde", "unresolved"} =>
          /\ last.cie_id # U64(0)
          /\ last.cie_offset =
                Sub64(Add64(last.off, U64(last.lenEnd)), last.cie_id)
          /\ ~last.section64 =>
                \/ last.cie_id = AllOnes64
                \/ /\ SubSeq(last.cie_id, 5, 8) = <<0, 0, 0, 0>>
                   /\ last.cie_id # AllOnes32

\* an FDE with a 4-byte ID was resolved to the CIE at offset 0 and stored
C8_Witness ==
    /\ last.pass = "decode" /\ last.kind = "fde" /\ last.outcome = "continue"
    /\ ~last.section64
    /\ last.cie_offset = U64(0)
    /\ DOMAIN fde_table_ # {}

\* C8 as stated: the CIE offset of an FDE is the section offset of the position
\* just after the ID field minus the ID.
C8_CieOffsetFromIdEnd ==
    last.kind \in {"fde", "unresolved"} =>
       last.cie_offset =
          Sub64(Add64(last.off, U64(last.lenEnd + (IF last.section64 THEN 8 ELSE 4))),
                last.cie_id)

\* C9: after an iteration the cursor is where the length field puts it: just
\* after the length field plus the length for a nonzero length, just after the
\* length field for a zero length; so every iteration moves the cursor forward.
C9_CursorAdvances ==
    last.outcome = "continue" =>
       /\ last.next = Add64(Add64(last.off, U64(last.lenEnd)), last.unit_len)
       /\ ~IsNeg64(last.off) => Less64(last.off, last.next)

\* C10: each record's end is at most the section end, and inside a record the
\* parse cursor does not pass the record's end.
C10_WithinSection ==
    last.kind \in {"cie", "fde"} =>
       /\ ~IsNeg64(last.cie_end)
       /\ ~Less64(U64(Len(eh_frame_data)), last.cie_end)
       /\ ~Less64(last.cie_end, Add64(last.off, U64(last.used)))

=============================================================================
